---- MODULE Spec2Model ----
(***************************************************************************)
(* BoardId (src/lib.rs): three optional byte streams (vendor, name,        *)
(* version) are packed into one fixed buffer by from_streams; the three    *)
(* accessors slice the buffer by the stored u8 offsets and Display renders *)
(* the cascade "<vendor> <name> <version>".                                *)
(*                                                                         *)
(* The state machine runs from_streams one stream.read call at a time.     *)
(* The streams are the environment: at every read call a stream delivers   *)
(* some bytes, signals end-of-stream, or fails.  Text is modelled as the   *)
(* sequence of its byte values.                                            *)
(***************************************************************************)
EXTENDS Integers, Sequences, FiniteSets

\* ---------------------------------------------------------------- constants

\* const BUFSZ: usize = u8::MAX as usize
BUFSZ == 255

\* The trailing NL of the /sys/class/dmi/id/board_* files.
NL == 10

\* ------------------------------------------------------------------- bounds

\* A stream delivers at most MaxLen bytes of freely chosen content.
MaxLen == 2

\* A stream may open with one large read of filler bytes that leaves at most
\* Slack bytes of the buffer slice free.
Slack == 2

\* Byte values the streams choose their content from: the terminator and a
\* printable letter.
Bytes == {NL, 65}

\* The m bytes of a large read.
FillerChunk(m) == [k \in 1..m |-> 70]

Sources == 1..3

\* ---------------------------------------------------------------- variables

VARIABLES
    supplied,   \* supplied[i]: argument i of from_streams is Some(stream)
    sent,       \* sent[i]: the bytes stream i has delivered so far
    big,        \* length of the large first read of the current stream
    buffer,     \* let mut buffer = [0u8; Self::BUFSZ]
    stage,      \* the source being read: 1 vendor, 2 name, 3 version
    pc,         \* "read" | "done" (Ok returned) | "shown" (formatted) | "err"
    n,          \* read's local n
    counts,     \* vendor_count, name_count, version_count
    reads,      \* reads[i]: stream.read calls issued on stream i
    closed,     \* closed[i]: stream i has returned 0
    error,      \* "none" | "WriteZero" | "Other"
    result,     \* <<>> or <<the BoardId returned>>
    line,       \* the text Display wrote
    mode,       \* "first" | "replay"
    script,     \* replay: the bytes each stream is going to deliver
    other       \* <<>> or <<the first construction: its inputs, BoardId and line>>

vars == <<supplied, sent, big, buffer, stage, pc, n, counts, reads, closed,
          error, result, line, mode, script, other>>

\* -------------------------------------------------------------- pure helpers

Min(a, b) == IF a < b THEN a ELSE b

SubSeqOrEmpty(s, a, b) == IF a > b THEN <<>> ELSE SubSeq(s, a, b)

\* A read that forgets to drop the trailing NL.
SaturatingSub1Keep(x) == x

\* n.saturating_sub(1)
SaturatingSub1(x) == IF x = 0 THEN 0 ELSE x - 1

\* x as u8
AsU8(x) == x % 256

\* Every read is handed the whole buffer.
SliceStartWhole(i, c) == 0

\* The start of the slice handed to read: buffer, buffer[vendor_count..],
\* buffer[vendor_count + name_count..].
SliceStart(i, c) ==
    CASE i = 1 -> 0
      [] i = 2 -> c[1]
      [] OTHER -> c[1] + c[2]

\* The capacity check is never taken.
BufIsEmptyNever(len, k) == len - k < 0

\* The capacity check is taken one byte early.
BufIsEmptyEarly(len, k) == len - k <= 1

\* buf.is_empty() for buf = &mut buffer[n..] of a slice of length len
BufIsEmpty(len, k) == len - k = 0

ZeroBuffer == [k \in 1..BUFSZ |-> 0]

\* The offsets are stored as the counts, not as their running sums.
MakeBoardIdRelative(buf, c) ==
    [buffer  |-> buf,
     vendor  |-> c[1] % 256,
     name    |-> c[2] % 256,
     version |-> c[3] % 256]

\* Ok(Self { buffer, vendor: .. as u8, name: .. as u8, version: .. as u8 })
MakeBoardId(buf, c) ==
    [buffer  |-> buf,
     vendor  |-> AsU8(c[1]),
     name    |-> AsU8(c[1] + c[2]),
     version |-> AsU8(c[1] + c[2] + c[3])]

\* Option<&[u8]>
None == [some |-> FALSE, val |-> <<>>]
Some(s) == [some |-> TRUE, val |-> s]

\* &self.buffer[a..b]; a > b or b > BUFSZ panics, shown as the slice <<-1>>
Slice(buf, a, b) ==
    IF a <= b /\ b <= BUFSZ THEN [k \in 1..(b - a) |-> buf[a + k]] ELSE <<-1>>

\* (self.vendor > 0).then_some(&self.buffer[..self.vendor as usize])
Vendor(id) == IF id.vendor > 0 THEN Some(Slice(id.buffer, 0, id.vendor)) ELSE None

\* The name is tested the way the vendor is: self.name > 0.
NameIfPositive(id) ==
    IF id.name > 0 THEN Some(Slice(id.buffer, id.vendor, id.name)) ELSE None

\* (self.vendor != self.name).then_some(&self.buffer[self.vendor..self.name])
Name(id) == IF id.vendor # id.name THEN Some(Slice(id.buffer, id.vendor, id.name)) ELSE None

\* (self.name < self.version).then_some(&self.buffer[self.name..self.version])
Version(id) == IF id.name < id.version THEN Some(Slice(id.buffer, id.name, id.version)) ELSE None

\* ------------------------------------------------------------------ Display

HexDigit(d) == IF d < 10 THEN 48 + d ELSE 87 + d

\* u8::escape_ascii
EscapeByte(b) ==
    CASE b = 9  -> <<92, 116>>
      [] b = 13 -> <<92, 114>>
      [] b = 10 -> <<92, 110>>
      [] b = 39 -> <<92, 39>>
      [] b = 34 -> <<92, 34>>
      [] b = 92 -> <<92, 92>>
      [] b >= 32 /\ b <= 126 /\ b \notin {39, 34, 92} -> <<b>>
      [] OTHER -> <<92, 120, HexDigit(b \div 16), HexDigit(b % 16)>>

\* [u8]::escape_ascii: the bytes' escapes in order (computed by halves)
RECURSIVE EscapeAscii(_)
EscapeAscii(s) ==
    IF s = <<>> THEN <<>>
    ELSE IF Len(s) = 1 THEN EscapeByte(s[1])
    ELSE LET h == Len(s) \div 2
         IN  EscapeAscii(SubSeq(s, 1, h)) \o EscapeAscii(SubSeq(s, h + 1, Len(s)))

Space == <<32>>
\* "motherboard"
Motherboard == <<109, 111, 116, 104, 101, 114, 98, 111, 97, 114, 100>>
\* "undetected motherboard"
Undetected == <<117, 110, 100, 101, 116, 101, 99, 116, 101, 100, 32>> \o Motherboard

\* A Display that shows the version whether or not a name was detected.
DisplayVersionAlways(id) ==
    LET v == Vendor(id)
        out1 == IF v.some THEN EscapeAscii(v.val) \o Space ELSE <<>>
        nm == Name(id)
        ver == Version(id)
        tail == IF ver.some THEN Space \o EscapeAscii(ver.val) ELSE <<>>
    IN  IF nm.some THEN out1 \o EscapeAscii(nm.val) \o tail
        ELSE IF v.some THEN out1 \o Motherboard \o tail
        ELSE Undetected \o tail

\* impl Display for BoardId: fmt
Display(id) ==
    LET v == Vendor(id)
        wrote_vendor == v.some
        out1 == IF v.some THEN EscapeAscii(v.val) \o Space ELSE <<>>
        nm == Name(id)
        detected_name == nm.some
        ver == Version(id)
    IN  IF nm.some
        THEN out1 \o EscapeAscii(nm.val)
                  \o (IF detected_name /\ ver.some THEN Space \o EscapeAscii(ver.val) ELSE <<>>)
        ELSE IF wrote_vendor THEN out1 \o Motherboard
        ELSE Undetected

\* derive(PartialEq, Eq): field-wise over buffer, vendor, name, version
BoardIdEq(a, b) ==
    /\ a.buffer = b.buffer
    /\ a.vendor = b.vendor
    /\ a.name = b.name
    /\ a.version = b.version

\* ----------------------------------------------------------------- the run

Empty3 == [i \in Sources |-> <<>>]

\* from_streams is entered: a fresh zeroed buffer, nothing read yet.
Fresh(sup) ==
    /\ supplied = sup
    /\ sent = Empty3
    /\ big = 0
    /\ buffer = ZeroBuffer
    /\ stage = 1
    /\ pc = "read"
    /\ n = 0
    /\ counts = [i \in Sources |-> 0]
    /\ reads = [i \in Sources |-> 0]
    /\ closed = [i \in Sources |-> FALSE]
    /\ error = "none"
    /\ result = <<>>
    /\ line = <<>>

Init ==
    /\ \E sup \in [Sources -> BOOLEAN] : Fresh(sup)
    /\ mode = "first"
    /\ script = Empty3
    /\ other = <<>>

\* The slice the current read call works on.
Start == SliceStart(stage, counts)
SliceLen == BUFSZ - Start

\* The source at `stage` is finished with payload length cnt: go on to the
\* next source, or build the BoardId after the third.
Advance(cnt) ==
    LET c == [counts EXCEPT ![stage] = cnt] IN
    /\ counts' = c
    /\ n' = 0
    /\ big' = 0
    /\ IF stage < 3
       THEN /\ stage' = stage + 1
            /\ UNCHANGED <<pc, result>>
       ELSE /\ pc' = "done"
            /\ result' = <<MakeBoardId(buffer, c)>>
            /\ UNCHANGED stage

\* x.map_or(Ok(0), ..) on None
Absent ==
    /\ pc = "read"
    /\ ~supplied[stage]
    /\ Advance(0)
    /\ UNCHANGED <<supplied, sent, buffer, reads, closed, error, line, mode, script, other>>

\* if buf.is_empty() { return Err(WriteZero) }
ReadFull ==
    /\ pc = "read"
    /\ supplied[stage]
    /\ BufIsEmpty(SliceLen, n)
    /\ pc' = "err"
    /\ error' = "WriteZero"
    /\ UNCHANGED <<supplied, sent, big, buffer, stage, n, counts, reads, closed,
                   result, line, mode, script, other>>

\* The bytes a read call may deliver into a buf of `room` bytes.
Chunks(room) ==
    IF mode = "replay"
    THEN LET rest == SubSeqOrEmpty(script[stage], Len(sent[stage]) + 1, Len(script[stage]))
         IN  IF rest = <<>> \/ room = 0 THEN {}
             ELSE {SubSeq(rest, 1, Min(room, Len(rest)))}
    ELSE UNION {[1..m -> Bytes] :
                    m \in 1..Min(room, MaxLen - (Len(sent[stage]) - big))}
         \cup (IF sent[stage] = <<>>
               THEN {FillerChunk(m) :
                        m \in {x \in (room - Slack)..room : x >= MaxLen + 1}}
               ELSE {})

\* n = m in place of n += m.
AddReadReplace(k, m) == m

\* The place n moves to after m bytes were read: n += m
AddRead(k, m) == k + m

\* let m = stream.read(buf)?  with m > 0:  n += m
ReadData ==
    /\ pc = "read"
    /\ supplied[stage]
    /\ ~BufIsEmpty(SliceLen, n)
    /\ \E chunk \in Chunks(SliceLen - n) :
          LET m == Len(chunk) IN
          /\ buffer' = [k \in 1..BUFSZ |->
                           IF k > Start + n /\ k <= Start + n + m
                           THEN chunk[k - Start - n] ELSE buffer[k]]
          /\ n' = AddRead(n, m)
          /\ sent' = [sent EXCEPT ![stage] = @ \o chunk]
          /\ big' = IF sent[stage] = <<>> /\ m > MaxLen THEN m ELSE big
    /\ reads' = [reads EXCEPT ![stage] = @ + 1]
    /\ UNCHANGED <<supplied, stage, pc, counts, closed, error, result, line,
                   mode, script, other>>

\* stream.read(buf) returned 0: break, Ok(n.saturating_sub(1))
ReadEof ==
    /\ pc = "read"
    /\ supplied[stage]
    /\ ~BufIsEmpty(SliceLen, n)
    /\ mode = "replay" => Len(sent[stage]) = Len(script[stage])
    /\ reads' = [reads EXCEPT ![stage] = @ + 1]
    /\ closed' = [closed EXCEPT ![stage] = TRUE]
    /\ Advance(SaturatingSub1(n))
    /\ UNCHANGED <<supplied, sent, buffer, error, line, mode, script, other>>

\* A failed read is taken for the end of the stream.
ReadErrIgnored ==
    /\ pc = "read"
    /\ supplied[stage]
    /\ ~BufIsEmpty(SliceLen, n)
    /\ mode = "first"
    /\ reads' = [reads EXCEPT ![stage] = @ + 1]
    /\ Advance(SaturatingSub1(n))
    /\ UNCHANGED <<supplied, sent, buffer, closed, error, line, mode, script, other>>

\* stream.read(buf)? failed: the error is returned as it is
ReadErr ==
    /\ pc = "read"
    /\ supplied[stage]
    /\ ~BufIsEmpty(SliceLen, n)
    /\ mode = "first"
    /\ reads' = [reads EXCEPT ![stage] = @ + 1]
    /\ pc' = "err"
    /\ error' = "Other"
    /\ UNCHANGED <<supplied, sent, big, buffer, stage, n, counts, closed,
                   result, line, mode, script, other>>

\* board.to_string()
Fmt ==
    /\ pc = "done"
    /\ line' = Display(result[1])
    /\ pc' = "shown"
    /\ UNCHANGED <<supplied, sent, big, buffer, stage, n, counts, reads, closed,
                   error, result, mode, script, other>>

\* The same call again with one absent source replaced by a supplied one
\* that holds nothing (empty) or only the terminator; the first BoardId is
\* kept (it is Copy) to compare with.
Replace ==
    /\ pc = "shown"
    /\ mode = "first"
    /\ \E i \in Sources, s \in {<<>>, <<NL>>} :
          /\ ~supplied[i]
          /\ script' = [sent EXCEPT ![i] = s]
          /\ other' = <<[supplied |-> supplied, sent |-> sent, at |-> i,
                         id |-> result[1], line |-> line]>>
          /\ supplied' = [supplied EXCEPT ![i] = TRUE]
    /\ mode' = "replay"
    /\ sent' = Empty3
    /\ big' = 0
    /\ buffer' = ZeroBuffer
    /\ stage' = 1
    /\ pc' = "read"
    /\ n' = 0
    /\ counts' = [i \in Sources |-> 0]
    /\ reads' = [i \in Sources |-> 0]
    /\ closed' = [i \in Sources |-> FALSE]
    /\ error' = "none"
    /\ result' = <<>>
    /\ line' = <<>>

Next ==
    \/ Absent
    \/ ReadFull
    \/ ReadData
    \/ ReadEof
    \/ ReadErr
    \/ Fmt
    \/ Replace

Spec == Init /\ [][Next]_vars

\* ------------------------------------------------------------ the properties

Succeeded == pc \in {"done", "shown"}
Id == result[1]
CapacityError == pc = "err" /\ error = "WriteZero"

\* A stream in the expected format: a payload and one trailing NL.
Formatted(s) == s # <<>> /\ s[Len(s)] = NL
\* What a stream delivered without its last byte.
Payload(s) == SubSeqOrEmpty(s, 1, Len(s) - 1)
Opt(s) == IF s = <<>> THEN None ELSE Some(s)
Given(i) == IF supplied[i] THEN Payload(sent[i]) ELSE <<>>
AllFormatted == \A i \in Sources : supplied[i] => Formatted(sent[i])
Accessors(id) == <<Vendor(id), Name(id), Version(id)>>
LoneName == ~supplied[1] /\ supplied[2] /\ ~supplied[3]

\* C1: round trip.  When every supplied stream is a payload followed by
\* one NL and from_streams succeeds, vendor(), name() and version() return
\* exactly the three payloads (an empty payload as None).
C1_RoundTrip ==
    (Succeeded /\ AllFormatted) =>
        Accessors(Id) = <<Opt(Given(1)), Opt(Given(2)), Opt(Given(3))>>

C1_Witness ==
    /\ pc = "done"
    /\ \A i \in Sources : supplied[i]
    /\ sent = <<(<<65, NL>>), (<<NL, NL>>), (<<65, NL>>)>>

\* C2 as stated: a lone name stream of BUFSZ - 1 payload bytes and the NL
\* is not refused, and once from_streams has returned Ok, name() is the payload.
C2_AsStated ==
    (LoneName /\ Formatted(sent[2]) /\ Len(Payload(sent[2])) <= BUFSZ - 1) =>
        /\ ~CapacityError
        /\ Succeeded => Name(Id) = Opt(Payload(sent[2]))

\* C2 amended: a lone name stream of payload and NL is refused with the
\* capacity error only when the payload has BUFSZ - 1 bytes or more, and is
\* accepted only when it has BUFSZ - 2 bytes or less; then name() is exactly
\* the payload and vendor() and version() are None.
C2_Boundary ==
    (LoneName /\ Formatted(sent[2])) =>
        /\ CapacityError => Len(Payload(sent[2])) >= BUFSZ - 1
        /\ Succeeded =>
              /\ Len(Payload(sent[2])) <= BUFSZ - 2
              /\ Accessors(Id) = <<None, Opt(Payload(sent[2])), None>>

C2_Witness ==
    /\ pc = "done"
    /\ LoneName
    /\ Formatted(sent[2])
    /\ Len(Payload(sent[2])) = BUFSZ - 2
    /\ Name(Id) = Some(Payload(sent[2]))

RECURSIVE PayloadSum(_)
\* The payload lengths of the supplied sources 1..k, added up.
PayloadSum(k) ==
    IF k = 0 THEN 0
    ELSE PayloadSum(k - 1) + (IF supplied[k] THEN Len(Payload(sent[k])) ELSE 0)

\* C3: the effective capacity is BUFSZ - 2.  With every source a payload
\* and one NL, success means the payloads add up to BUFSZ - 2 at most and
\* every field has its payload's full length; the capacity error (WriteZero,
\* no BoardId) means that the payloads of the sources read before, plus
\* what the refused stream delivered less one byte, exceed BUFSZ - 2.
C3_EffectiveCapacity ==
    /\ (Succeeded /\ AllFormatted) =>
          /\ PayloadSum(3) <= BUFSZ - 2
          /\ Id.vendor = Len(Given(1))
          /\ Id.name - Id.vendor = Len(Given(2))
          /\ Id.version - Id.name = Len(Given(3))
    /\ (CapacityError /\ \A i \in 1..(stage - 1) : supplied[i] => Formatted(sent[i])) =>
          /\ result = <<>>
          /\ PayloadSum(stage - 1) + (Len(sent[stage]) - 1) > BUFSZ - 2

C3_Witness ==
    /\ CapacityError
    /\ stage = 3
    /\ \A i \in Sources : supplied[i]
    /\ Formatted(sent[1]) /\ Formatted(sent[2]) /\ Formatted(sent[3])
    /\ Len(sent[1]) > 1
    /\ PayloadSum(3) = BUFSZ - 1

\* C4: the stored offsets of a returned BoardId are ordered,
\* 0 <= vendor <= name <= version <= BUFSZ, and are the running sums of the
\* counts themselves: no `as u8` cast wraps.
C4_Offsets ==
    Succeeded =>
        /\ 0 <= Id.vendor /\ Id.vendor <= Id.name
        /\ Id.name <= Id.version /\ Id.version <= BUFSZ
        /\ Id.vendor = counts[1]
        /\ Id.name = counts[1] + counts[2]
        /\ Id.version = counts[1] + counts[2] + counts[3]

C4_Witness ==
    /\ pc = "done"
    /\ 0 < Id.vendor /\ Id.vendor < Id.name /\ Id.name < Id.version
    /\ Id.version = BUFSZ - 2

\* The line the cascade rule prescribes for a BoardId.
CascadeLine(id) ==
    LET v == Vendor(id)
        nm == Name(id)
        ver == Version(id)
    IN  IF ~v.some /\ ~nm.some THEN Undetected
        ELSE (IF v.some THEN EscapeAscii(v.val) \o Space ELSE <<>>)
             \o (IF nm.some THEN EscapeAscii(nm.val) ELSE Motherboard)
             \o (IF nm.some /\ ver.some THEN Space \o EscapeAscii(ver.val) ELSE <<>>)

\* The test module's cases, with "A" for each of VENDOR, NAME and VERSION.
CascadeCases ==
    LET g == <<Given(1), Given(2), Given(3)>>
        a == <<65>>
    IN  /\ g = <<(<<>>), (<<>>), (<<>>)>> => line = Undetected
        /\ g = <<a, (<<>>), (<<>>)>> => line = <<65, 32>> \o Motherboard
        /\ g = <<a, (<<>>), a>> => line = <<65, 32>> \o Motherboard
        /\ g = <<(<<>>), (<<>>), a>> => line = Undetected
        /\ g = <<a, a, a>> => line = <<65, 32, 65, 32, 65>>
        /\ g = <<(<<>>), a, (<<>>)>> => line = <<65>>

\* C5: the rendered line is the cascade: the vendor and a space if the
\* vendor is present; then the name, or "motherboard" after a vendor, or
\* "undetected motherboard" as the whole line; and a space and the version
\* exactly when both name and version are present.
C5_Cascade ==
    pc = "shown" =>
        /\ line = CascadeLine(Id)
        /\ AllFormatted => CascadeCases

C5_Witness ==
    /\ pc = "shown"
    /\ Vendor(Id).some /\ Name(Id).some /\ Version(Id).some
    /\ line = EscapeAscii(Vendor(Id).val) \o Space \o EscapeAscii(Name(Id).val)
                \o Space \o EscapeAscii(Version(Id).val)

\* C6: a supplied source that delivers nothing or only the NL is reported
\* None; and the call repeated with an absent source replaced by such a
\* source succeeds like the first and gives the same vendor(), name(),
\* version() and the same line.
C6_EmptyAsAbsent ==
    /\ Succeeded =>
          \A i \in Sources :
              (supplied[i] /\ Len(sent[i]) <= 1) => ~Accessors(Id)[i].some
    /\ mode = "replay" =>
          /\ pc # "err"
          /\ Succeeded => Accessors(Id) = Accessors(other[1].id)
          /\ pc = "shown" => line = other[1].line

C6_Witness ==
    /\ mode = "replay"
    /\ pc = "shown"
    /\ other[1].at = 2
    /\ sent[2] = <<NL>>
    /\ Vendor(Id).some /\ Version(Id).some
    /\ ~Name(other[1].id).some

\* The offsets and the bytes of each field's range agree.
FieldsMatch(a, b) ==
    /\ a.vendor = b.vendor /\ a.name = b.name /\ a.version = b.version
    /\ a.vendor <= a.name /\ a.name <= a.version
    /\ Slice(a.buffer, 0, a.version) = Slice(b.buffer, 0, b.version)

\* C7: two BoardIds from from_streams are equal exactly when their offsets
\* and the bytes within the fields' ranges agree; bytes at or beyond
\* version_end do not count.
C7_ValueEquality ==
    (mode = "replay" /\ Succeeded) =>
        (BoardIdEq(Id, other[1].id) <=> FieldsMatch(Id, other[1].id))

C8Inv ==
    /\ pc = "err" =>
          /\ result = <<>> /\ line = <<>>
          /\ error \in {"WriteZero", "Other"}
          /\ ~closed[stage]
    /\ Succeeded => \A i \in Sources : supplied[i] => closed[i]
    /\ \A j \in Sources :
          reads[j] > 0 =>
              /\ supplied[j]
              /\ j <= stage
              /\ \A i \in 1..(j - 1) : supplied[i] => closed[i]

C8Step ==
    /\ pc = "err" => (reads' = reads /\ result' = result /\ pc' = pc)
    /\ \A i \in Sources : (closed[i] /\ mode' = mode) => reads'[i] = reads[i]

\* C8: the sources are read in the order vendor, name, version, each to its
\* end before the next is touched; an error ends the call with no BoardId,
\* and no read call follows it, nor the end of a stream, on any source.
C8_AllOrNothing == [][C8Inv' /\ C8Step]_vars

C8_Witness ==
    /\ pc = "err"
    /\ error = "Other"
    /\ stage = 2
    /\ closed[1]
    /\ reads[2] = 2
    /\ supplied[3] /\ reads[3] = 0

\* Where the fields of the sources read before end: the cursor of the
\* current read.
PriorEnd ==
    (IF stage > 1 THEN counts[1] ELSE 0) + (IF stage > 2 THEN counts[2] ELSE 0)

\* The bytes of source i's field range in the buffer.
FieldBytes(i) ==
    LET from == (IF i > 1 THEN counts[1] ELSE 0) + (IF i > 2 THEN counts[2] ELSE 0)
    IN  Slice(buffer, from, from + counts[i])

\* C9: however a stream's bytes are split over read calls, they lie in the
\* buffer in order from the cursor on, read returns max(N - 1, 0), and the
\* field is the stream's bytes without the last one.
C9_PartialReads ==
    /\ (pc = "read" /\ supplied[stage]) =>
          /\ n = Len(sent[stage])
          /\ Slice(buffer, PriorEnd, PriorEnd + n) = sent[stage]
    /\ \A i \in Sources :
          closed[i] =>
              /\ counts[i] = (IF Len(sent[i]) = 0 THEN 0 ELSE Len(sent[i]) - 1)
              /\ FieldBytes(i) = Payload(sent[i])
    /\ Succeeded =>
          /\ Slice(Id.buffer, 0, Id.vendor) = Given(1)
          /\ Slice(Id.buffer, Id.vendor, Id.name) = Given(2)
          /\ Slice(Id.buffer, Id.name, Id.version) = Given(3)

C9_Witness ==
    /\ pc = "done"
    /\ supplied[3]
    /\ reads[3] = 3
    /\ sent[3] = <<65, 65>>
    /\ Version(Id) = Some(<<65>>)

C10Inv ==
    /\ (pc \in {"read", "err"} /\ supplied[stage]) =>
          /\ PriorEnd + n <= BUFSZ
          /\ reads[stage] <= (BUFSZ - PriorEnd) + 1
    /\ (pc = "read" /\ supplied[stage]) => reads[stage] <= n

C10Step ==
    pc = "read" => \A k \in 1..PriorEnd : buffer'[k] = buffer[k]

\* C10: read never runs past the buffer and issues at most as many read
\* calls as the buffer is long from its cursor on, plus one; and a read
\* never changes a byte before its cursor.
C10_Termination == [][C10Inv' /\ C10Step]_vars

C10_Witness ==
    /\ CapacityError
    /\ stage = 3
    /\ ~closed[3]
    /\ PriorEnd > 0
    /\ reads[3] = BUFSZ - PriorEnd

====
